---- MODULE Spec2Model ----
(***************************************************************************)
(* Model of the statistical-aggregation library (aggregate.ts, BigNumber   *)
(* revision).  aggregate() is a pure synchronous function of its request;  *)
(* the state machine below is a caller that builds a record list, calls    *)
(* aggregate, and may feed the aggregated records back as input.           *)
(*                                                                         *)
(* JavaScript strings are sequences of one-character strings, so that      *)
(* template literals, join, slice, split, Number() and the default         *)
(* Array.prototype.sort comparison are computed, not assumed.              *)
(***************************************************************************)
EXTENDS Integers, Sequences, FiniteSets, TLC

(***************************************************************************)
(* Bounds of the exploration.                                              *)
(***************************************************************************)
MaxRecords == 2

MaxCalls == 2

(***************************************************************************)
(* Characters and strings.                                                 *)
(***************************************************************************)
Digits == <<"0", "1", "2", "3", "4", "5", "6", "7", "8", "9">>

IsDigit(c) == \E i \in 1..10 : Digits[i] = c

DigitVal(c) == (CHOOSE i \in 1..10 : Digits[i] = c) - 1

\* UTF-16 code unit of the characters the model uses.
CharCode(c) ==
  CASE c = "+" -> 43
    [] c = "," -> 44
    [] c = "-" -> 45
    [] c = "." -> 46
    [] IsDigit(c) -> 48 + DigitVal(c)
    [] c = "<" -> 60
    [] c = "=" -> 61
    [] c = "a" -> 97
    [] c = "b" -> 98
    [] c = "c" -> 99
    [] OTHER -> 100

RECURSIVE StrLess(_, _)
\* s < t for two JavaScript strings: code-unit lexicographic order.
StrLess(s, t) ==
  IF t = <<>> THEN FALSE
  ELSE IF s = <<>> THEN TRUE
  ELSE IF CharCode(Head(s)) # CharCode(Head(t))
       THEN CharCode(Head(s)) < CharCode(Head(t))
  ELSE StrLess(Tail(s), Tail(t))

RECURSIVE NatToStr(_)
NatToStr(n) ==
  IF n < 10 THEN <<Digits[n + 1]>>
  ELSE NatToStr(n \div 10) \o <<Digits[(n % 10) + 1]>>

\* String(n) for an integer number n.
NumToStr(n) == IF n < 0 THEN <<"-">> \o NatToStr(0 - n) ELSE NatToStr(n)

RECURSIVE DigitsToNat(_, _)
DigitsToNat(s, acc) ==
  IF s = <<>> THEN acc
  ELSE DigitsToNat(Tail(s), 10 * acc + DigitVal(Head(s)))

AllDigits(s) == s # <<>> /\ \A i \in 1..Len(s) : IsDigit(s[i])

IsIntLiteral(s) ==
  \/ AllDigits(s)
  \/ Len(s) > 1 /\ Head(s) \in {"-", "+"} /\ AllDigits(Tail(s))

IntLiteralVal(s) ==
  IF Head(s) = "-" THEN 0 - DigitsToNat(Tail(s), 0)
  ELSE IF Head(s) = "+" THEN DigitsToNat(Tail(s), 0)
  ELSE DigitsToNat(s, 0)

(***************************************************************************)
(* JavaScript values.  Every value has the same shape so that any two can  *)
(* be compared: t is the kind, n/d a rational number (d = 1 for integers), *)
(* s the characters of a string.                                           *)
(***************************************************************************)
Num(n) == [t |-> "num", n |-> n, d |-> 1, s |-> <<>>]

Str(s) == [t |-> "str", n |-> 0, d |-> 1, s |-> s]

Undefined == [t |-> "undef", n |-> 0, d |-> 1, s |-> <<>>]

NaN == [t |-> "nan", n |-> 0, d |-> 1, s |-> <<>>]

PInf == [t |-> "inf", n |-> 0, d |-> 1, s |-> <<>>]

NInf == [t |-> "ninf", n |-> 0, d |-> 1, s |-> <<>>]

IsNumeric(v) == v.t \in {"num", "inf", "ninf"}

\* Number(s) for a string s: the empty string is 0, a signed decimal
\* integer literal is its value, anything else the model uses is NaN.
StrToNumber(s) ==
  IF s = <<>> THEN Num(0)
  ELSE IF IsIntLiteral(s) THEN Num(IntLiteralVal(s))
  ELSE NaN

\* ToNumber(v) as used by the relational operators.
ToNumber(v) ==
  CASE v.t = "str" -> StrToNumber(v.s)
    [] v.t = "undef" -> NaN
    [] OTHER -> v

\* a < b for two numeric values (rationals with positive denominators,
\* +Infinity, -Infinity); false as soon as one side is NaN.
NumLess(a, b) ==
  /\ IsNumeric(a) /\ IsNumeric(b)
  /\ \/ a.t = "ninf" /\ b.t # "ninf"
     \/ a.t = "num" /\ b.t = "inf"
     \/ a.t = "num" /\ b.t = "num" /\ a.n * b.d < b.n * a.d

NumEq(a, b) ==
  /\ IsNumeric(a) /\ IsNumeric(b)
  /\ a.t = b.t
  /\ a.t = "num" => a.n * b.d = b.n * a.d

\* The JavaScript relational operators a < b and a <= b.
JsLess(a, b) ==
  IF a.t = "str" /\ b.t = "str" THEN StrLess(a.s, b.s)
  ELSE NumLess(ToNumber(a), ToNumber(b))

JsLessEq(a, b) ==
  IF a.t = "str" /\ b.t = "str" THEN ~StrLess(b.s, a.s)
  ELSE NumLess(ToNumber(a), ToNumber(b)) \/ NumEq(ToNumber(a), ToNumber(b))

\* String(v), as Array.prototype.join and template literals convert.
ToStr(v) ==
  CASE v.t = "str" -> v.s
    [] v.t = "num" -> NumToStr(v.n)
    [] v.t = "undef" -> <<"u", "n", "d", "e", "f", "i", "n", "e", "d">>
    [] v.t = "nan" -> <<"N", "a", "N">>
    [] v.t = "inf" -> <<"I", "n", "f", "i", "n", "i", "t", "y">>
    [] OTHER -> <<"-", "I", "n", "f", "i", "n", "i", "t", "y">>

\* Array.prototype.join renders undefined as the empty string.
JoinStr(v) == IF v.t = "undef" THEN <<>> ELSE ToStr(v)

(***************************************************************************)
(* BigNumber arithmetic on the accumulator states.  Sums of integers stay  *)
(* integers; a quotient is kept as a fraction in lowest terms.             *)
(***************************************************************************)
\* new BigNumber(v)
ToBN(v) ==
  CASE v.t = "str" -> IF IsIntLiteral(v.s) THEN Num(IntLiteralVal(v.s)) ELSE NaN
    [] v.t = "undef" -> NaN
    [] OTHER -> v

BNplusBN(a, b) ==
  CASE a.t = "nan" \/ b.t = "nan" -> NaN
    [] a.t = "inf" -> IF b.t = "ninf" THEN NaN ELSE PInf
    [] a.t = "ninf" -> IF b.t = "inf" THEN NaN ELSE NInf
    [] b.t \in {"inf", "ninf"} -> b
    [] OTHER -> Num(a.n + b.n)

\* a.plus(v)
BNplus(a, v) == BNplusBN(a, ToBN(v))

BNtimesBN(a, b) ==
  CASE a.t = "nan" \/ b.t = "nan" -> NaN
    [] a.t = "num" /\ b.t = "num" -> Num(a.n * b.n)
    [] (a.t = "num" /\ a.n = 0) \/ (b.t = "num" /\ b.n = 0) -> NaN
    [] NumLess(a, Num(0)) = NumLess(b, Num(0)) -> PInf
    [] OTHER -> NInf

\* new BigNumber(v).times(w)
BNtimes(v, w) == BNtimesBN(ToBN(v), ToBN(w))

\* new BigNumber(v).pow(2)
BNsquare(v) == BNtimesBN(ToBN(v), ToBN(v))

\* BigNumber.min(a, v) and BigNumber.max(a, v): NaN if either is NaN.
BNmin(a, v) ==
  LET b == ToBN(v) IN
  IF a.t = "nan" \/ b.t = "nan" THEN NaN
  ELSE IF NumLess(b, a) THEN b ELSE a

BNmax(a, v) ==
  LET b == ToBN(v) IN
  IF a.t = "nan" \/ b.t = "nan" THEN NaN
  ELSE IF NumLess(a, b) THEN b ELSE a

RECURSIVE Gcd(_, _)
Gcd(a, b) == IF b = 0 THEN a ELSE Gcd(b, a % b)

Abs(n) == IF n < 0 THEN 0 - n ELSE n

\* a.div(b).toNumber() for integer states a and b.
BNdiv(a, b) ==
  CASE a.t = "nan" \/ b.t = "nan" -> NaN
    [] a.t = "num" /\ b.t = "num" ->
         IF b.n = 0
         THEN (IF a.n = 0 THEN NaN ELSE IF a.n > 0 THEN PInf ELSE NInf)
         ELSE LET g == Gcd(Abs(a.n), Abs(b.n))
                  sg == IF b.n < 0 THEN 0 - 1 ELSE 1
              IN [t |-> "num", n |-> sg * (a.n \div g), d |-> sg * (b.n \div g),
                  s |-> <<>>]
    [] a.t = "num" -> Num(0)
    [] b.t = "num" ->
         IF (a.t = "inf") = (b.n >= 0) THEN PInf ELSE NInf
    [] OTHER -> NaN

(***************************************************************************)
(* Field paths.  A path is a string; _.get and _.set address a record by   *)
(* path, while a plain property access record[key] only sees a top-level   *)
(* key.                                                                    *)
(***************************************************************************)
P_k1 == <<"k", "1">>

P_k2 == <<"k", "2">>

P_age == <<"a", "g", "e">>

P_nage == <<"n", ".", "a", "g", "e">>

P_v == <<"v">>

P_w == <<"w">>

\* output field names
P_cnt == <<"c", "n", "t">>

P_sum == <<"s", "u", "m">>

P_min == <<"m", "i", "n">>

P_max == <<"m", "a", "x">>

P_avg == <<"a", "v", "g">>

P_wavg == <<"w", "a", "v", "g">>

InPaths == {P_k1, P_k2, P_age, P_nage, P_v, P_w}

OutPaths == {P_cnt, P_sum, P_min, P_max, P_avg, P_wavg}

AllPaths == InPaths \cup OutPaths

\* an absent (undefined) sourceField / weightField of a field definition
NoField == <<"undefined">>

\* exists(input): input !== undefined && input !== null
exists(p) == p # NoField

IsNestedPath(p) == \E i \in 1..Len(p) : p[i] \in {".", "["}

(***************************************************************************)
(* Bucket assigner.                                                        *)
(***************************************************************************)
RECURSIVE InsertByStr(_, _)
InsertByStr(x, sorted) ==
  IF sorted = <<>> THEN <<x>>
  ELSE IF StrLess(NumToStr(x), NumToStr(Head(sorted)))
       THEN <<x>> \o sorted
  ELSE <<Head(sorted)>> \o InsertByStr(x, Tail(sorted))

RECURSIVE DefaultSort(_)
\* bucketEndpoints.sort(): no comparator, so the elements are ordered by
\* their string conversions.  Stable: an element goes after its equals.
DefaultSort(a) ==
  IF a = <<>> THEN <<>>
  ELSE InsertByStr(a[Len(a)], DefaultSort(SubSeq(a, 1, Len(a) - 1)))

NoBucket == [has |-> FALSE, e |-> <<>>]

\* buckets?.[matchKey]
BucketOf(buckets, key) ==
  IF buckets.has /\ key \in DOMAIN buckets.map
  THEN [has |-> TRUE, e |-> buckets.map[key]]
  ELSE NoBucket

RECURSIVE BucketLoop(_, _, _, _)
\* the for loop of getFieldHashKey over the sorted endpoints
BucketLoop(value, eps, hasPrev, prev) ==
  IF eps = <<>>
  THEN Str((IF hasPrev THEN NumToStr(prev) ELSE ToStr(Undefined)) \o <<"+">>)
  ELSE IF JsLessEq(value, Num(Head(eps)))
       THEN (IF ~hasPrev
             THEN Str(<<"<", "=">> \o NumToStr(Head(eps)))
             ELSE Str(NumToStr(prev) \o <<"-">> \o NumToStr(Head(eps))))
  ELSE BucketLoop(value, Tail(eps), TRUE, Head(eps))

\* _.get(record, path)
Get(record, path) ==
  IF path \in DOMAIN record.f THEN record.f[path] ELSE Undefined

getFieldHashKey(record, matchKey, bucketEndpoints) ==
  LET value == Get(record, matchKey) IN
  IF ~bucketEndpoints.has THEN value
  ELSE BucketLoop(value, DefaultSort(bucketEndpoints.e), FALSE, 0)

RECURSIVE SplitDash(_, _)
\* bucketString.split("-")
SplitDash(s, cur) ==
  IF s = <<>> THEN <<cur>>
  ELSE IF Head(s) = "-" THEN <<cur>> \o SplitDash(Tail(s), <<>>)
  ELSE SplitDash(Tail(s), Append(cur, Head(s)))

\* parseBucketString(bucketString) for a string
parseBucketString(s) ==
  IF Len(s) >= 2 /\ s[1] = "<" /\ s[2] = "="
  THEN <<NInf, StrToNumber(Tail(s))>>
  ELSE IF Len(s) >= 1 /\ s[Len(s)] = "+"
  THEN <<StrToNumber(SubSeq(s, 1, Len(s) - 1)), PInf>>
  ELSE LET parts == SplitDash(s, <<>>)
       IN [i \in 1..Len(parts) |-> StrToNumber(parts[i])]

\* record[sortKey]: a plain property access, blind to nested paths
PropGet(record, key) == IF IsNestedPath(key) THEN Undefined ELSE record.f[key]

\* The sort criterion transformSortKeyForSort yields for one record:
\* the value at the path, or for a bucketed key the parsed bucket start.
\* threw: the criterion function raised a TypeError (startsWith of a
\* value that is not a string).
SortCriterion(record, sortKey, buckets) ==
  IF ~BucketOf(buckets, sortKey).has
  THEN [threw |-> FALSE, v |-> Get(record, sortKey)]
  ELSE LET label == PropGet(record, sortKey) IN
       IF label.t # "str" THEN [threw |-> TRUE, v |-> Undefined]
       ELSE [threw |-> FALSE, v |-> parseBucketString(label.s)[1]]

(***************************************************************************)
(* Records, aggregation metadata and requests.                             *)
(***************************************************************************)
EmptySources == [k \in {} |-> 0]

\* record[AGG_METADATA_FIELD] absent
NoMeta == [has |-> FALSE, matchKeys |-> <<>>, count |-> Num(0),
           sources |-> EmptySources]

EmptyFields == [p \in AllPaths |-> Undefined]

\* the per-metric state created for a standard source field
NewStandardState ==
  [sum |-> Num(0), sumOfSquares |-> Num(0), min |-> PInf, max |-> NInf,
   weightedSum |-> Undefined, totalWeight |-> Undefined]

\* the per-metric state created for a weighted (sourceField, weightField) pair
NewWeightedState ==
  [sum |-> Undefined, sumOfSquares |-> Undefined, min |-> Undefined,
   max |-> Undefined, weightedSum |-> Num(0), totalWeight |-> Num(0)]

WA_PREFIX ==
  <<"w", "e", "i", "g", "h", "t", "e", "d", "A", "v", "e", "r", "a", "g", "e">>

getWeightedAverageMetadataKey(sourceField, weightField) ==
  WA_PREFIX \o <<",">> \o sourceField \o <<",">> \o weightField

\* _.difference(subset, superset).length === 0
isSubset(subset, superset) ==
  \A i \in 1..Len(subset) : \E j \in 1..Len(superset) : superset[j] = subset[i]

RECURSIVE UniqFrom(_, _)
UniqFrom(seq, seen) ==
  IF seq = <<>> THEN <<>>
  ELSE IF Head(seq) \in seen THEN UniqFrom(Tail(seq), seen)
  ELSE <<Head(seq)>> \o UniqFrom(Tail(seq), seen \cup {Head(seq)})

IsStandardField(fd) == fd.method # "weightedAverage"

IsWeightedField(fd) == fd.method = "weightedAverage"

\* _.uniq of the source fields of the non-weighted field definitions
standardSourceFields(fields) ==
  LET nonW == SelectSeq(fields, IsStandardField)
      srcs == [i \in 1..Len(nonW) |-> nonW[i].sourceField]
  IN UniqFrom(SelectSeq(srcs, exists), {})

RECURSIVE UniqByKey(_, _)
UniqByKey(seq, seen) ==
  IF seq = <<>> THEN <<>>
  ELSE LET k == getWeightedAverageMetadataKey(Head(seq).sourceField,
                                              Head(seq).weightField)
       IN IF k \in seen THEN UniqByKey(Tail(seq), seen)
          ELSE <<Head(seq)>> \o UniqByKey(Tail(seq), seen \cup {k})

\* _.uniqBy of the weightedAverage field definitions, by composite key
weightedAvgFields(fields) == UniqByKey(SelectSeq(fields, IsWeightedField), {})

HasSource(meta, key) == key \in DOMAIN meta.sources

SetSource(sources, key, st) ==
  [k \in (DOMAIN sources) \cup {key} |-> IF k = key THEN st ELSE sources[k]]

(***************************************************************************)
(* aggregateInternal: classification of one record.                        *)
(***************************************************************************)
\* C12 mutant: the match-key containment check always passes
MatchKeysCompatible_Any(record, matchKeys) == TRUE

\* lines 227-246: the match-key containment check
MatchKeysCompatible(record, matchKeys) ==
  isSubset(matchKeys, record.meta.matchKeys)

\* lines 264-275: every standard source field has a state in sources
StandardSourcesPresent(record, fields) ==
  LET ssf == standardSourceFields(fields) IN
  \A i \in 1..Len(ssf) : HasSource(record.meta, ssf[i])

\* lines 277-289: the check made for the weighted pairs; it looks sources up
\* under the plain sourceField
WeightedCheckKey(fd) == fd.sourceField

WeightedSourcesPresent(record, fields) ==
  LET waf == weightedAvgFields(fields) IN
  \A i \in 1..Len(waf) : HasSource(record.meta, WeightedCheckKey(waf[i]))

\* the final value of isAggregatedRecord (undefined counts as false)
isAggregatedRecord(record, matchKeys, fields) ==
  /\ record.meta.has
  /\ MatchKeysCompatible(record, matchKeys)
  /\ StandardSourcesPresent(record, fields)
  /\ WeightedSourcesPresent(record, fields)

\* the diagnostics console.log writes for one record, in order
Diagnostics(record, matchKeys, fields) ==
  IF ~record.meta.has THEN <<>>
  ELSE LET ssf == standardSourceFields(fields)
           waf == weightedAvgFields(fields)
           d1 == IF MatchKeysCompatible(record, matchKeys) THEN <<>>
                 ELSE <<"matchKeys">>
           d2 == SelectSeq([i \in 1..Len(ssf) |->
                              IF HasSource(record.meta, ssf[i]) THEN "ok"
                              ELSE "source"], LAMBDA x : x # "ok")
           d3 == SelectSeq([i \in 1..Len(waf) |->
                              IF HasSource(record.meta, WeightedCheckKey(waf[i]))
                              THEN "ok" ELSE "weighted"], LAMBDA x : x # "ok")
       IN d1 \o d2 \o d3

RECURSIVE HashKeyOf(_, _, _)
\* lines 292-300: the per-key labels joined with ""
HashKeyOf(record, matchKeys, buckets) ==
  IF matchKeys = <<>> THEN <<>>
  ELSE JoinStr(getFieldHashKey(record, Head(matchKeys),
                               BucketOf(buckets, Head(matchKeys))))
       \o HashKeyOf(record, Tail(matchKeys), buckets)

RECURSIVE SetLabels(_, _, _, _)
\* lines 311-321: _.set of every match key's label on the new group
SetLabels(f, record, matchKeys, buckets) ==
  IF matchKeys = <<>> THEN f
  ELSE SetLabels([f EXCEPT ![Head(matchKeys)] =
                    getFieldHashKey(record, Head(matchKeys),
                                    BucketOf(buckets, Head(matchKeys)))],
                 record, Tail(matchKeys), buckets)

\* lines 302-309
NewGroup(record, matchKeys, buckets) ==
  [f |-> SetLabels(EmptyFields, record, matchKeys, buckets),
   meta |-> [has |-> TRUE, matchKeys |-> matchKeys, count |-> Num(0),
             sources |-> EmptySources]]

(***************************************************************************)
(* aggregateInternal: folding one record into its group.  A fold result    *)
(* carries threw = TRUE when the JavaScript code raises at that point.     *)
(***************************************************************************)
\* lines 324-328
CountContribution(record, isAgg) ==
  IF isAgg THEN record.meta.count ELSE Num(1)

\* lines 346-376, one standard source field
FoldOneStandard(meta, record, isAgg, sourceField) ==
  LET sources0 == IF HasSource(meta, sourceField) THEN meta.sources
                  ELSE SetSource(meta.sources, sourceField, NewStandardState)
      newValue == Get(record, sourceField)
      inHash == sources0[sourceField]
      onRec == IF record.meta.has /\ HasSource(record.meta, sourceField)
               THEN record.meta.sources[sourceField] ELSE NewWeightedState
      st == [inHash EXCEPT
               !.sum = BNplus(inHash.sum, IF isAgg THEN onRec.sum ELSE newValue),
               !.sumOfSquares = BNplusBN(inHash.sumOfSquares,
                                  IF isAgg THEN ToBN(onRec.sumOfSquares)
                                  ELSE BNsquare(newValue)),
               !.min = BNmin(ToBN(inHash.min),
                             IF isAgg THEN onRec.min ELSE newValue),
               !.max = BNmax(ToBN(inHash.max),
                             IF isAgg THEN onRec.max ELSE newValue)]
  IN IF inHash.sum.t = "undef"
     THEN [threw |-> TRUE, meta |-> [meta EXCEPT !.sources = sources0]]
     ELSE [threw |-> FALSE,
           meta |-> [meta EXCEPT !.sources = SetSource(sources0, sourceField, st)]]

RECURSIVE FoldStandard(_, _, _, _)
\* lines 330-377
FoldStandard(meta, record, isAgg, ssf) ==
  IF ssf = <<>> THEN [threw |-> FALSE, meta |-> meta]
  ELSE LET r == FoldOneStandard(meta, record, isAgg, Head(ssf)) IN
       IF r.threw THEN r ELSE FoldStandard(r.meta, record, isAgg, Tail(ssf))

\* lines 379-429, one weighted pair
FoldOneWeighted(meta, record, isAgg, fd) ==
  LET sourceValue == Get(record, fd.sourceField)
      weightValue == Get(record, fd.weightField)
      metadataKey == getWeightedAverageMetadataKey(fd.sourceField, fd.weightField)
      sources0 == IF HasSource(meta, metadataKey) THEN meta.sources
                  ELSE SetSource(meta.sources, metadataKey, NewWeightedState)
      inHash == sources0[metadataKey]
      onRecDefined == record.meta.has /\ HasSource(record.meta, metadataKey)
      onRec == IF onRecDefined THEN record.meta.sources[metadataKey]
               ELSE NewStandardState
      st == [inHash EXCEPT
               !.totalWeight = BNplus(inHash.totalWeight,
                                 IF isAgg THEN onRec.totalWeight ELSE weightValue),
               !.weightedSum = BNplusBN(inHash.weightedSum,
                                 IF isAgg THEN ToBN(onRec.weightedSum)
                                 ELSE BNtimes(sourceValue, weightValue))]
  IN IF ~exists(fd.weightField)
     THEN [threw |-> TRUE, meta |-> meta]
     ELSE IF (isAgg /\ ~onRecDefined) \/ inHash.totalWeight.t = "undef"
     THEN [threw |-> TRUE, meta |-> [meta EXCEPT !.sources = sources0]]
     ELSE [threw |-> FALSE,
           meta |-> [meta EXCEPT !.sources = SetSource(sources0, metadataKey, st)]]

RECURSIVE FoldWeighted(_, _, _, _)
FoldWeighted(meta, record, isAgg, waf) ==
  IF waf = <<>> THEN [threw |-> FALSE, meta |-> meta]
  ELSE LET r == FoldOneWeighted(meta, record, isAgg, Head(waf)) IN
       IF r.threw THEN r ELSE FoldWeighted(r.meta, record, isAgg, Tail(waf))

\* index of hashKey in the hash (0 when absent)
HashIndex(hash, key) ==
  IF \E i \in 1..Len(hash) : hash[i].key = key
  THEN CHOOSE i \in 1..Len(hash) : hash[i].key = key
  ELSE 0

\* lines 302-322: the hash with the group of hashKey created if missing
EnsureGroup(hash, hashKey, record, matchKeys, buckets) ==
  IF HashIndex(hash, hashKey) = 0
  THEN Append(hash, [key |-> hashKey,
                     rec |-> NewGroup(record, matchKeys, buckets)])
  ELSE hash

\* lines 379-429 run only when lines 330-377 did not raise
FoldWeightedAfter(r2, record, isAgg, fields) ==
  IF r2.threw THEN r2
  ELSE FoldWeighted(r2.meta, record, isAgg, weightedAvgFields(fields))

\* lines 324-429: count, standard metrics, weighted metrics of one record
FoldMetrics(m0, record, isAgg, fields) ==
  FoldWeightedAfter(
    FoldStandard([m0 EXCEPT !.count = BNplus(m0.count,
                                             CountContribution(record, isAgg))],
                 record, isAgg, standardSourceFields(fields)),
    record, isAgg, fields)

StoreGroup(S, hash0, i, r3, diag) ==
  [threw |-> r3.threw,
   hash |-> [hash0 EXCEPT ![i].rec.meta = r3.meta],
   log |-> Append(S.log, diag)]

FoldGroup(S, record, matchKeys, fields, isAgg, hash0, hashKey) ==
  StoreGroup(S, hash0, HashIndex(hash0, hashKey),
             FoldMetrics(hash0[HashIndex(hash0, hashKey)].rec.meta,
                         record, isAgg, fields),
             Diagnostics(record, matchKeys, fields))

FoldAt(S, record, matchKeys, buckets, fields, hashKey) ==
  FoldGroup(S, record, matchKeys, fields,
            isAggregatedRecord(record, matchKeys, fields),
            EnsureGroup(S.hash, hashKey, record, matchKeys, buckets),
            hashKey)

\* lines 224-430, the body of the loop for one record
FoldRecord(S, record, matchKeys, buckets, fields) ==
  IF S.threw THEN S
  ELSE FoldAt(S, record, matchKeys, buckets, fields,
              HashKeyOf(record, matchKeys, buckets))

RECURSIVE FoldAll(_, _, _, _, _)
FoldAll(S, records, matchKeys, buckets, fields) ==
  IF records = <<>> THEN S
  ELSE FoldAll(FoldRecord(S, Head(records), matchKeys, buckets, fields),
               Tail(records), matchKeys, buckets, fields)

EmptyHash == [threw |-> FALSE, hash |-> <<>>, log |-> <<>>]

(***************************************************************************)
(* aggregationFunctions: the output value of one field from the metadata.  *)
(***************************************************************************)
IsSquare(n) == \E r \in 0..n : r * r = n

Isqrt(n) == CHOOSE r \in 0..n : r * r = n

\* variance.sqrt().toNumber() of the rational n/d: NaN below zero, and a
\* value of kind "sqrt" (the root of n/d) when the root is irrational
BNsqrt(x) ==
  IF x.t # "num" THEN (IF x.t = "inf" THEN PInf ELSE NaN)
  ELSE IF x.n < 0 THEN NaN
  ELSE IF IsSquare(x.n) /\ IsSquare(x.d)
       THEN BNdiv(Num(Isqrt(x.n)), Num(Isqrt(x.d)))
  ELSE [t |-> "sqrt", n |-> x.n, d |-> x.d, s |-> <<>>]

\* sumOfSquares.div(count).minus(average.pow(2)) for integer states
Variance(sumsq, sum, count) ==
  IF sumsq.t = "num" /\ sum.t = "num" /\ count.t = "num" /\ count.n # 0
  THEN BNdiv(Num(sumsq.n * count.n - sum.n * sum.n), Num(count.n * count.n))
  ELSE NaN

\* aggregationFunctions[method]; threw when a property of undefined is read
ApplyMethod(fd, meta) ==
  IF fd.method = "count" THEN [threw |-> FALSE, v |-> meta.count]
  ELSE IF fd.method = "weightedAverage"
  THEN LET key == getWeightedAverageMetadataKey(fd.sourceField, fd.weightField) IN
       IF ~HasSource(meta, key) \/ meta.sources[key].weightedSum.t = "undef"
       THEN [threw |-> TRUE, v |-> Undefined]
       ELSE [threw |-> FALSE,
             v |-> BNdiv(meta.sources[key].weightedSum,
                         ToBN(meta.sources[key].totalWeight))]
  ELSE IF ~HasSource(meta, fd.sourceField)
  THEN [threw |-> TRUE, v |-> Undefined]
  ELSE LET st == meta.sources[fd.sourceField] IN
       CASE fd.method = "min" ->
              [threw |-> st.min.t = "undef", v |-> st.min]
         [] fd.method = "max" ->
              [threw |-> st.max.t = "undef", v |-> st.max]
         [] fd.method = "sum" ->
              [threw |-> st.sum.t = "undef", v |-> st.sum]
         [] fd.method = "average" ->
              [threw |-> st.sum.t = "undef", v |-> BNdiv(st.sum, meta.count)]
         [] OTHER ->
              [threw |-> st.sum.t = "undef" \/ st.sumOfSquares.t = "undef",
               v |-> BNsqrt(Variance(st.sumOfSquares, st.sum, meta.count))]

RECURSIVE ComputeOutputs(_, _)
\* lines 435-447: _.set of every output field on one group
ComputeOutputs(rec, fields) ==
  IF fields = <<>> THEN [threw |-> FALSE, rec |-> rec]
  ELSE LET r == ApplyMethod(Head(fields), rec.meta) IN
       IF r.threw THEN [threw |-> TRUE, rec |-> rec]
       ELSE ComputeOutputs([rec EXCEPT !.f[Head(fields).out] = r.v], Tail(fields))

(***************************************************************************)
(* Object.keys(recordsHash): integer-like keys first, in ascending numeric *)
(* order, then the other keys in insertion order.                          *)
(***************************************************************************)
IsArrayIndex(key) ==
  /\ AllDigits(key)
  /\ Len(key) = 1 \/ key[1] # "0"
  /\ Len(key) <= 9

RECURSIVE InsertByIndex(_, _)
InsertByIndex(e, sorted) ==
  IF sorted = <<>> THEN <<e>>
  ELSE IF DigitsToNat(e.key, 0) < DigitsToNat(Head(sorted).key, 0)
       THEN <<e>> \o sorted
  ELSE <<Head(sorted)>> \o InsertByIndex(e, Tail(sorted))

RECURSIVE SortByIndex(_)
SortByIndex(es) ==
  IF es = <<>> THEN <<>>
  ELSE InsertByIndex(es[Len(es)], SortByIndex(SubSeq(es, 1, Len(es) - 1)))

HasIndexKey(e) == IsArrayIndex(e.key)

HasStringKey(e) == ~IsArrayIndex(e.key)

ObjectKeysOrder(hash) ==
  SortByIndex(SelectSeq(hash, HasIndexKey)) \o SelectSeq(hash, HasStringKey)

(***************************************************************************)
(* _.sortBy(aggregatedRecords, criteria): stable, ascending.               *)
(***************************************************************************)
\* lodash compareAscending (no null, no symbol): 1, -1 or 0
compareAscending(value, other) ==
  IF value = other /\ value.t # "nan" THEN 0
  ELSE IF \/ JsLess(other, value)
          \/ value.t = "undef" /\ other.t # "nan"
          \/ value.t = "nan"
       THEN 1
  ELSE IF \/ JsLess(value, other)
          \/ other.t = "undef" /\ value.t # "nan"
          \/ other.t = "nan"
       THEN 0 - 1
  ELSE 0

RECURSIVE compareMultiple(_, _)
compareMultiple(ca, cb) ==
  IF ca = <<>> THEN 0
  ELSE LET c == compareAscending(Head(ca), Head(cb)) IN
       IF c # 0 THEN c ELSE compareMultiple(Tail(ca), Tail(cb))

RECURSIVE InsertByCriteria(_, _)
InsertByCriteria(e, sorted) ==
  IF sorted = <<>> THEN <<e>>
  ELSE IF compareMultiple(e.criteria, Head(sorted).criteria) < 0
       THEN <<e>> \o sorted
  ELSE <<Head(sorted)>> \o InsertByCriteria(e, Tail(sorted))

RECURSIVE SortByCriteria(_)
SortByCriteria(es) ==
  IF es = <<>> THEN <<>>
  ELSE InsertByCriteria(es[Len(es)], SortByCriteria(SubSeq(es, 1, Len(es) - 1)))

\* lines 456-461
SortRecords(recs, sortBy, buckets) ==
  LET crit(rec) == [k \in 1..Len(sortBy.keys) |->
                      SortCriterion(rec, sortBy.keys[k], buckets)]
      threw == \E i \in 1..Len(recs) : \E k \in 1..Len(sortBy.keys) :
                 crit(recs[i])[k].threw
      es == [i \in 1..Len(recs) |->
               [rec |-> recs[i],
                criteria |-> [k \in 1..Len(sortBy.keys) |-> crit(recs[i])[k].v]]]
      sorted == SortByCriteria(es)
  IN IF threw THEN [threw |-> TRUE, recs |-> <<>>]
     ELSE [threw |-> FALSE, recs |-> [i \in 1..Len(sorted) |-> sorted[i].rec]]

(***************************************************************************)
(* aggregateInternal and aggregate.                                        *)
(***************************************************************************)
NoBuckets == [has |-> FALSE, map |-> [k \in {} |-> <<>>]]

NoSortBy == [has |-> FALSE, keys |-> <<>>]

\* lines 432-447: the output fields of every group, in Object.keys order
DeriveOutputs(ordered, fields) ==
  [i \in 1..Len(ordered) |-> ComputeOutputs(ordered[i].rec, fields)]

WithLog(r, log) == [threw |-> r.threw, recs |-> r.recs, log |-> log]

\* lines 454-463
SortOutputs(outs, sortBy, buckets, log) ==
  IF \E i \in 1..Len(outs) : outs[i].threw
  THEN [threw |-> TRUE, recs |-> <<>>, log |-> log]
  ELSE IF sortBy.has
  THEN WithLog(SortRecords([i \in 1..Len(outs) |-> outs[i].rec], sortBy, buckets),
               log)
  ELSE [threw |-> FALSE, recs |-> [i \in 1..Len(outs) |-> outs[i].rec],
        log |-> log]

\* lines 432-463, after the loop over the records
DeriveAndSort(S, fields, sortBy, buckets) ==
  IF S.threw THEN [threw |-> TRUE, recs |-> <<>>, log |-> S.log]
  ELSE SortOutputs(DeriveOutputs(ObjectKeysOrder(S.hash), fields),
                   sortBy, buckets, S.log)

aggregateInternal(records, matchKeys, buckets, fields, sortBy) ==
  DeriveAndSort(FoldAll(EmptyHash, records, matchKeys, buckets, fields),
                fields, sortBy, buckets)

\* C16 mutant: the metadata is left on the record
StripMeta_Kept(rec) == rec

\* lines 195-201: delete record[AGG_METADATA_FIELD]
StripMeta(rec) == [rec EXCEPT !.meta = NoMeta]

NoRecord == [f |-> EmptyFields, meta |-> NoMeta]

\* the outcome of a call that raised
Threw(log) == [status |-> "threw", aggregatedRecords |-> <<>>,
               hasTotals |-> FALSE, totals |-> NoRecord, log |-> log]

\* C6 mutant: the totals pass groups by the request's match keys
TotalsMatchKeys_Grouped(req) == req.matchKeys

\* line 193: the totals pass is given no matchKeys, so the default [] applies
TotalsMatchKeys(req) == <<>>

StripAll(recs) == [i \in 1..Len(recs) |-> StripMeta(recs[i])]

\* lines 195-206, once both passes have returned
Assemble(grouped, total, req, log) ==
  IF req.noAggregateMetadata
  THEN (IF Len(total.recs) = 0 THEN Threw(log)
        ELSE [status |-> "returned",
              aggregatedRecords |-> StripAll(grouped.recs),
              hasTotals |-> TRUE,
              totals |-> StripMeta(total.recs[1]),
              log |-> log])
  ELSE [status |-> "returned",
        aggregatedRecords |-> grouped.recs,
        hasTotals |-> Len(total.recs) > 0,
        totals |-> IF Len(total.recs) > 0 THEN total.recs[1] ELSE NoRecord,
        log |-> log]

\* lines 186-193: the grouped pass, then the totals pass
TwoPasses(grouped, total, req) ==
  IF grouped.threw THEN Threw(grouped.log)
  ELSE IF total.threw THEN Threw(grouped.log \o total.log)
  ELSE Assemble(grouped, total, req, grouped.log \o total.log)

\* lines 178-207; log is what the two passes wrote to the console
aggregate(records, req) ==
  TwoPasses(aggregateInternal(records, req.matchKeys, req.buckets,
                              req.fields, req.sortBy),
            aggregateInternal(records, TotalsMatchKeys(req), NoBuckets,
                              req.fields, req.sortBy),
            req)

(***************************************************************************)
(* Object identity.  The accumulators of a pass are the objects stored in  *)
(* recordsHash and in their sources; every assignment of the fold writes   *)
(* to one of them.  An object is owned by the input record (position i)    *)
(* it is shared with, or by no input record (0) when the pass made it.     *)
(***************************************************************************)
\* C21 mutant: the group of hashKey is the input record that opened it
GroupObjectOwner_Input(i) == i

\* lines 303-309: recordsHash[hashKey] is assigned a new object literal
GroupObjectOwner(i) == 0

\* lines 336-343 and 399-404: sources[key] is assigned a new object literal,
\* never the metadataOnRecord object of the record
StateObjectOwner(i) == 0

\* the position of the record that made the pass create the group of entry e
Creator(e, recs, matchKeys, buckets) ==
  CHOOSE i \in 1..Len(recs) :
    /\ HashKeyOf(recs[i], matchKeys, buckets) = e.key
    /\ \A j \in 1..(i - 1) : HashKeyOf(recs[j], matchKeys, buckets) # e.key

\* the group object as the pass leaves it: outputs set unless the pass raised
GroupAfterPass(e, S, fields) ==
  IF S.threw THEN e.rec ELSE ComputeOutputs(e.rec, fields).rec

\* the input record at position i after the writes of one pass
InputAfterPass(i, recs, S, matchKeys, buckets, fields) ==
  IF \E k \in 1..Len(S.hash) :
       GroupObjectOwner(Creator(S.hash[k], recs, matchKeys, buckets)) = i
  THEN GroupAfterPass(
         S.hash[CHOOSE k \in 1..Len(S.hash) :
                  GroupObjectOwner(Creator(S.hash[k], recs, matchKeys, buckets)) = i],
         S, fields)
  ELSE IF \E k \in 1..Len(S.hash) :
            StateObjectOwner(Creator(S.hash[k], recs, matchKeys, buckets)) = i
  THEN [recs[i] EXCEPT !.meta.sources =
          S.hash[CHOOSE k \in 1..Len(S.hash) :
                   StateObjectOwner(Creator(S.hash[k], recs, matchKeys, buckets)) = i
                ].rec.meta.sources]
  ELSE recs[i]

InputsAfterPass(recs, S, matchKeys, buckets, fields) ==
  [i \in 1..Len(recs) |-> InputAfterPass(i, recs, S, matchKeys, buckets, fields)]

\* the input records after one pass of aggregateInternal
AfterPass(recs, matchKeys, buckets, fields) ==
  InputsAfterPass(recs, FoldAll(EmptyHash, recs, matchKeys, buckets, fields),
                  matchKeys, buckets, fields)

\* lines 186-193: the input records after the grouped and the totals pass
InputsAfterCall(recs, req) ==
  AfterPass(AfterPass(recs, req.matchKeys, req.buckets, req.fields),
            TotalsMatchKeys(req), NoBuckets, req.fields)

\* The request object after a call: getFieldHashKey sorts the breakpoint
\* array of every bucketed match key in place, once a record is processed.
RequestAfterCall(records, req) ==
  IF records = <<>> \/ ~req.buckets.has THEN req
  ELSE [req EXCEPT !.buckets.map =
          [k \in DOMAIN req.buckets.map |->
             IF \E i \in 1..Len(req.matchKeys) : req.matchKeys[i] = k
             THEN DefaultSort(req.buckets.map[k])
             ELSE req.buckets.map[k]]]

(***************************************************************************)
(* The inputs explored: raw records and requests.                          *)
(***************************************************************************)
Raw(k1, k2, age, v, w) ==
  [f |-> [p \in AllPaths |->
            CASE p = P_k1 -> Str(k1)
              [] p = P_k2 -> Str(k2)
              [] p = P_age -> Num(age)
              [] p = P_nage -> Num(age)
              [] p = P_v -> Num(v)
              [] p = P_w -> Num(w)
              [] OTHER -> Undefined],
   meta |-> NoMeta]

RawRecords ==
  { Raw(<<"a">>, <<"b", "c">>, 0 - 7, 2, 1),
    Raw(<<"a", "b">>, <<"c">>, 1, 4, 2),
    Raw(<<"a">>, <<"c">>, 5, 2, 3),
    Raw(<<"a">>, <<"b", "c">>, 15, 6, 1) }

Field(out, method, sourceField, weightField) ==
  [out |-> out, method |-> method, sourceField |-> sourceField,
   weightField |-> weightField]

F_std ==
  << Field(P_cnt, "count", NoField, NoField),
     Field(P_sum, "sum", P_v, NoField),
     Field(P_min, "min", P_v, NoField),
     Field(P_max, "max", P_v, NoField),
     Field(P_avg, "average", P_v, NoField) >>

F_weighted ==
  << Field(P_cnt, "count", NoField, NoField),
     Field(P_wavg, "weightedAverage", P_v, P_w) >>

F_both ==
  << Field(P_cnt, "count", NoField, NoField),
     Field(P_sum, "sum", P_v, NoField),
     Field(P_wavg, "weightedAverage", P_v, P_w) >>

\* count and standardDeviation of v
F_sd ==
  << Field(P_cnt, "count", NoField, NoField),
     Field(P_avg, "standardDeviation", P_v, NoField) >>

\* a weightedAverage field definition without weightField
F_noWeight ==
  << Field(P_cnt, "count", NoField, NoField),
     Field(P_wavg, "weightedAverage", P_v, NoField) >>

\* a sum field definition without sourceField
F_noSource ==
  << Field(P_cnt, "count", NoField, NoField),
     Field(P_sum, "sum", NoField, NoField) >>

\* a weightedAverage field definition without sourceField
F_wNoSource ==
  << Field(P_cnt, "count", NoField, NoField),
     Field(P_wavg, "weightedAverage", NoField, P_w) >>

\* a field path with a comma, and one that starts with "weightedAverage,"
P_vw == <<"v", ",", "w">>

P_ww == <<"w", ",", "w">>

P_wavw == getWeightedAverageMetadataKey(P_v, P_w)

\* a sum whose source field path reads like the metadata key of the pair (v, w)
F_prefixed ==
  << Field(P_cnt, "count", NoField, NoField),
     Field(P_sum, "sum", P_wavw, NoField),
     Field(P_wavg, "weightedAverage", P_v, P_w) >>

\* two weighted pairs whose paths contain commas
F_commas ==
  << Field(P_cnt, "count", NoField, NoField),
     Field(P_wavg, "weightedAverage", P_vw, P_w),
     Field(P_avg, "weightedAverage", P_v, P_ww) >>

\* A record that carries aggregation metadata when the caller starts: an
\* aggregate of two records on match key k1, kept from an earlier run, whose
\* stored sumOfSquares is smaller than sum * sum / count.
Stored ==
  [f |-> [p \in AllPaths |->
            CASE p = P_k1 -> Str(<<"a">>)
              [] p = P_k2 -> Str(<<"b", "c">>)
              [] p = P_v -> Num(3)
              [] p = P_w -> Num(1)
              [] p = P_cnt -> Num(2)
              [] OTHER -> Undefined],
   meta |-> [has |-> TRUE, matchKeys |-> <<P_k1>>, count |-> Num(2),
             sources |-> SetSource(EmptySources, P_v,
                           [NewStandardState EXCEPT !.sum = Num(4),
                                                    !.sumOfSquares = Num(5),
                                                    !.min = Num(1),
                                                    !.max = Num(3)])]]

Bucket(key, endpoints) ==
  [has |-> TRUE, map |-> [k \in {key} |-> endpoints]]

SortOn(key) == [has |-> TRUE, keys |-> <<key>>]

Req(matchKeys, buckets, fields, sortBy, noMeta) ==
  [matchKeys |-> matchKeys, buckets |-> buckets, fields |-> fields,
   sortBy |-> sortBy, noAggregateMetadata |-> noMeta]

Requests ==
  { Req(mk, NoBuckets, fs, NoSortBy, nm) :
      mk \in {<<>>, <<P_k1>>, <<P_k1, P_k2>>, <<P_age>>},
      fs \in {F_std}, nm \in BOOLEAN }
  \cup
  { Req(<<P_k1>>, NoBuckets, fs, sb, FALSE) :
      fs \in {F_weighted, F_both}, sb \in {NoSortBy, SortOn(P_cnt)} }
  \cup
  { Req(<<P_age>>, Bucket(P_age, e), F_std, sb, FALSE) :
      e \in {<<0, 10, 20>>, <<2, 10>>, <<10, 2>>, <<0 - 10, 0 - 5>>,
             <<5, 10, 100>>},
      sb \in {NoSortBy, SortOn(P_age)} }
  \cup
  { Req(<<P_nage>>, Bucket(P_nage, <<0, 10, 20>>), F_std, sb, FALSE) :
      sb \in {NoSortBy, SortOn(P_nage)} }
  \cup
  { Req(<<P_k1>>, NoBuckets, fs, NoSortBy, FALSE) :
      fs \in {F_sd, F_noWeight, F_noSource, F_wNoSource} }
  \cup
  { Req(<<P_k2>>, NoBuckets, F_both, NoSortBy, FALSE) }
  \cup
  { Req(<<P_k1>>, NoBuckets, F_both, NoSortBy, TRUE) }
  \cup
  { Req(<<P_k1>>, NoBuckets, fs, NoSortBy, FALSE) : fs \in {F_prefixed, F_commas} }

(***************************************************************************)
(* The caller.                                                             *)
(***************************************************************************)
\* records: the caller's record list; request: the caller's request object
\* (aggregate sorts its breakpoint arrays in place); given: the request as
\* the caller wrote it; result: the outcome of the last call
VARIABLES records, request, given, result, calls

vars == <<records, request, given, result, calls>>

NotCalled == [status |-> "none", aggregatedRecords |-> <<>>,
              hasTotals |-> FALSE, totals |-> NoRecord, log |-> <<>>]

\* the caller starts with an empty list or with the stored aggregate
Init ==
  /\ records \in {<<>>, <<Stored>>}
  /\ request \in Requests
  /\ given = request
  /\ result = NotCalled
  /\ calls = 0

\* the caller appends one raw record to its list
AddRecord(r) ==
  /\ Len(records) < MaxRecords
  /\ records' = Append(records, r)
  /\ result' = NotCalled
  /\ UNCHANGED <<request, given, calls>>

\* aggregate({records, ...request})
Call ==
  /\ calls < MaxCalls
  /\ result.status = "none"
  /\ result' = aggregate(records, request)
  /\ request' = RequestAfterCall(records, request)
  /\ calls' = calls + 1
  /\ records' = InputsAfterCall(records, request)
  /\ UNCHANGED given

\* the caller takes the aggregated records as its new record list
FeedBack ==
  /\ result.status = "returned"
  /\ Len(result.aggregatedRecords) > 0
  /\ records' = result.aggregatedRecords
  /\ result' = NotCalled
  /\ UNCHANGED <<request, given, calls>>

Next ==
  \/ \E r \in RawRecords : AddRecord(r)
  \/ Call
  \/ FeedBack

Spec == Init /\ [][Next]_vars

(***************************************************************************)
(* Vocabulary of the properties.                                           *)
(***************************************************************************)
AllRaw(recs) == \A i \in 1..Len(recs) : ~recs[i].meta.has

HasAggregated(recs) == \E i \in 1..Len(recs) : recs[i].meta.has

Prefix(recs, i) == SubSeq(recs, 1, i)

Suffix(recs, i) == SubSeq(recs, i + 1, Len(recs))

\* the request with the aggregation metadata kept on the output
KeepMeta(req) == [req EXCEPT !.noAggregateMetadata = FALSE]

WithMatchKeys(req, mk) == [req EXCEPT !.matchKeys = mk]

\* the identifying labels of an output group
Labels(rec, req) == [i \in 1..Len(req.matchKeys) |-> rec.f[req.matchKeys[i]]]

\* what the standard state of a group holds for the standard source fields
StandardStates(rec, req) ==
  LET ssf == standardSourceFields(req.fields) IN
  [i \in 1..Len(ssf) |->
     IF HasSource(rec.meta, ssf[i])
     THEN LET st == rec.meta.sources[ssf[i]]
          IN <<st.sum, st.sumOfSquares, st.min, st.max>>
     ELSE <<>>]

\* labels, count/sum/min/max/average outputs and the metadata state
StandardView(rec, req) ==
  [labels |-> Labels(rec, req),
   out |-> <<rec.f[P_cnt], rec.f[P_sum], rec.f[P_min], rec.f[P_max], rec.f[P_avg]>>,
   count |-> rec.meta.count,
   states |-> StandardStates(rec, req)]

\* labels and count/sum/min/max/average outputs
OutputView(rec, req) ==
  [labels |-> Labels(rec, req),
   out |-> <<rec.f[P_cnt], rec.f[P_sum], rec.f[P_min], rec.f[P_max], rec.f[P_avg]>>]

\* labels and count
CountView(rec, req) == [labels |-> Labels(rec, req), count |-> rec.f[P_cnt]]

StandardViews(res, req) ==
  {StandardView(res.aggregatedRecords[i], req) : i \in 1..Len(res.aggregatedRecords)}

OutputViews(res, req) ==
  {OutputView(res.aggregatedRecords[i], req) : i \in 1..Len(res.aggregatedRecords)}

CountViews(res, req) ==
  {CountView(res.aggregatedRecords[i], req) : i \in 1..Len(res.aggregatedRecords)}

Returned(res) == res.status = "returned"

\* aggregate over the two chunks' aggregated records agrees with aggregate
\* over the union, group by group
Composes(c1, c2, req) ==
  LET a1 == aggregate(c1, req)
      a2 == aggregate(c2, req)
      whole == aggregate(c1 \o c2, req)
      merged == aggregate(a1.aggregatedRecords \o a2.aggregatedRecords, req)
  IN (Returned(a1) /\ Returned(a2) /\ Returned(whole)) =>
       /\ Returned(merged)
       /\ StandardViews(merged, req) = StandardViews(whole, req)

\* aggregate over aggregate(X) followed by raw Y agrees with aggregate over X, Y
Augments(x, y, req) ==
  LET ax == aggregate(x, req)
      whole == aggregate(x \o y, req)
      augmented == aggregate(ax.aggregatedRecords \o y, req)
  IN (Returned(ax) /\ Returned(whole)) =>
       /\ Returned(augmented)
       /\ OutputViews(augmented, req) = OutputViews(whole, req)

AugmentsCounts(x, y, req) ==
  LET ax == aggregate(x, req)
      whole == aggregate(x \o y, req)
      augmented == aggregate(ax.aggregatedRecords \o y, req)
  IN (Returned(ax) /\ Returned(whole)) =>
       /\ Returned(augmented)
       /\ CountViews(augmented, req) = CountViews(whole, req)

(***************************************************************************)
(* C1.  Composability: for every record list split into two chunks and     *)
(* every request without buckets, aggregating the concatenation of the two *)
(* chunks' aggregatedRecords (metadata kept) gives, for every group, the   *)
(* same count, sum, min, max, average and metadata state as aggregating    *)
(* the whole list once.                                                    *)
(***************************************************************************)
C1_Composability ==
  (AllRaw(records) /\ ~request.buckets.has) =>
    \A i \in 0..Len(records) :
      Composes(Prefix(records, i), Suffix(records, i), KeepMeta(request))

(***************************************************************************)
(* C2.  Augmentability: for every list X, every list Y of raw records and  *)
(* every request without buckets, aggregate over aggregate(X)'s            *)
(* aggregatedRecords followed by Y gives the same groups with the same     *)
(* count, sum, min, max and average as aggregate over X followed by Y.     *)
(***************************************************************************)
C2_Augmentability ==
  ~request.buckets.has =>
    \A i \in 0..Len(records) :
      AllRaw(Suffix(records, i)) =>
        Augments(Prefix(records, i), Suffix(records, i), KeepMeta(request))

(***************************************************************************)
(* C3.  A metadata-bearing input record whose metadata matchKeys contain   *)
(* the requested matchKeys and whose sources contain the composite key of  *)
(* every requested weighted pair and the key of every requested standard   *)
(* source field is classified re-aggregatable, also when sources has no    *)
(* entry under the plain sourceField name.                                 *)
(***************************************************************************)
NeededKeysPresent(rec, req) ==
  LET ssf == standardSourceFields(req.fields)
      waf == weightedAvgFields(req.fields)
  IN /\ isSubset(req.matchKeys, rec.meta.matchKeys)
     /\ \A i \in 1..Len(ssf) : HasSource(rec.meta, ssf[i])
     /\ \A i \in 1..Len(waf) :
          HasSource(rec.meta, getWeightedAverageMetadataKey(waf[i].sourceField,
                                                            waf[i].weightField))

C3_CompositeKeyClassification ==
  \A i \in 1..Len(records) :
    (records[i].meta.has /\ NeededKeysPresent(records[i], request)) =>
      isAggregatedRecord(records[i], request.matchKeys, request.fields)

(***************************************************************************)
(* C4.  With buckets on a match key, a previously aggregated record that   *)
(* carries bucket label L is folded into the group labelled L, so          *)
(* aggregate over aggregate(X)'s records followed by raw Y has the same    *)
(* groups and counts as aggregate over X followed by Y.                    *)
(***************************************************************************)
C4_BucketedAugmentability ==
  (AllRaw(records) /\ request.buckets.has) =>
    \A i \in 0..Len(records) :
      AugmentsCounts(Prefix(records, i), Suffix(records, i), KeepMeta(request))

(***************************************************************************)
(* C5.  Re-aggregation on a subset of match keys: for raw records X and    *)
(* K' a subset of K, aggregating aggregate(X, K)'s records with K' gives   *)
(* for every group the same count and sum/sumOfSquares/min/max values as   *)
(* aggregating X with K'.                                                  *)
(***************************************************************************)
SubKeyLists(mk) ==
  {<<>>} \cup {<<mk[i]>> : i \in 1..Len(mk)} \cup {mk}

Reaggregates(recs, req, sub) ==
  LET first == aggregate(recs, req)
      second == aggregate(first.aggregatedRecords, WithMatchKeys(req, sub))
      direct == aggregate(recs, WithMatchKeys(req, sub))
  IN (Returned(first) /\ Returned(direct)) =>
       /\ Returned(second)
       /\ StandardViews(second, WithMatchKeys(req, sub))
            = StandardViews(direct, WithMatchKeys(req, sub))

C5_SubsetReaggregation ==
  (AllRaw(records) /\ ~request.buckets.has) =>
    \A sub \in SubKeyLists(request.matchKeys) :
      Reaggregates(records, KeepMeta(request), sub)

(***************************************************************************)
(* C6.  Idempotence of totals: for fixed records and fields the totals     *)
(* returned by aggregate are the same for every choice of matchKeys,       *)
(* buckets and sortBy, and equal the single group produced by aggregating  *)
(* with matchKeys = [].                                                    *)
(***************************************************************************)
BaseRequest(req) ==
  Req(<<>>, NoBuckets, req.fields, NoSortBy, req.noAggregateMetadata)

SameTotals(a, b) ==
  /\ a.hasTotals = b.hasTotals
  /\ a.totals = b.totals

\* The state in which the totals of all the requests with these fields are
\* compared with each other: the one of the ungrouped request, or every
\* state when the ungrouped request is not among the requests explored.
\* In the other states the totals are compared with the ungrouped ones.
ComparesAllGroupings(req) ==
  req.matchKeys = <<>> \/ BaseRequest(req) \notin Requests

C6_TotalsIndependentOfGrouping ==
  Returned(result) =>
    LET base == aggregate(records, BaseRequest(request)) IN
    /\ Returned(base)
    /\ SameTotals(result, base)
    /\ result.hasTotals =>
         /\ Len(base.aggregatedRecords) = 1
         /\ result.totals = base.aggregatedRecords[1]
    /\ ComparesAllGroupings(request) =>
         \A q \in Requests :
           (q.fields = request.fields
              /\ q.noAggregateMetadata = request.noAggregateMetadata) =>
             LET other == aggregate(records, q) IN
             Returned(other) => SameTotals(result, other)

\* a returned call that grouped by a bucketed key, sorted, and produced at
\* least two groups next to the totals
C6_Witness ==
  /\ Returned(result)
  /\ result.hasTotals
  /\ request.buckets.has
  /\ request.sortBy.has
  /\ Len(result.aggregatedRecords) >= 2

(***************************************************************************)
(* C7.  For every request, also with an empty records sequence and with    *)
(* either value of noAggregateMetadata, aggregate returns normally and     *)
(* totals is a record.                                                     *)
(***************************************************************************)
C7_TotalsAlwaysARecord ==
  result.status # "none" => (Returned(result) /\ result.hasTotals)

(***************************************************************************)
(* C8.  Bucket assignment with ascending breakpoints b0 < ... < bn-1:      *)
(* v <= b0 gives "<=b0", bi < v <= bi+1 gives "bi-bi+1", v > bn-1 gives    *)
(* "bn-1+"; a value equal to a breakpoint goes into the lower bucket.      *)
(***************************************************************************)
TestValues ==
  {0 - 12, 0 - 10, 0 - 7, 0 - 5, 0 - 3, 0, 1, 2, 3, 5, 7, 10, 15, 20, 50,
   100, 150}

IsAscending(e) == \A i \in 1..(Len(e) - 1) : e[i] < e[i + 1]

\* the label the Bucket Assigner contract gives v for ascending breakpoints e
ContractLabel(e, v) ==
  IF v <= e[1] THEN <<"<", "=">> \o NumToStr(e[1])
  ELSE IF \E i \in 1..(Len(e) - 1) : e[i] < v /\ v <= e[i + 1]
  THEN LET i == CHOOSE j \in 1..(Len(e) - 1) : e[j] < v /\ v <= e[j + 1]
       IN NumToStr(e[i]) \o <<"-">> \o NumToStr(e[i + 1])
  ELSE NumToStr(e[Len(e)]) \o <<"+">>

BucketedKeys(req) == IF req.buckets.has THEN DOMAIN req.buckets.map ELSE {}

ValueRecord(key, v) ==
  [f |-> [EmptyFields EXCEPT ![key] = Num(v)], meta |-> NoMeta]

AssignedLabel(req, key, v) ==
  getFieldHashKey(ValueRecord(key, v), key, BucketOf(req.buckets, key))

\* every raw record of the call sits in a group labelled as label(value) says
GroupsLabelled(res, recs, key, label(_)) ==
  \A i \in 1..Len(recs) :
    \E j \in 1..Len(res.aggregatedRecords) :
      Get(res.aggregatedRecords[j], key) = Str(label(Get(recs[i], key).n))

C8_BucketContract ==
  (Returned(result) /\ AllRaw(records)) =>
    \A k \in BucketedKeys(given) :
      IsAscending(given.buckets.map[k]) =>
        LET contract(v) == ContractLabel(given.buckets.map[k], v) IN
        /\ \A v \in TestValues : AssignedLabel(given, k, v) = Str(contract(v))
        /\ GroupsLabelled(result, records, k, contract)

(***************************************************************************)
(* C9.  For distinct breakpoints given in any order, the label assigned to *)
(* every value is the one the breakpoints give in numerically ascending    *)
(* order.                                                                  *)
(***************************************************************************)
RECURSIVE InsertNumeric(_, _)
InsertNumeric(x, sorted) ==
  IF sorted = <<>> THEN <<x>>
  ELSE IF x < Head(sorted) THEN <<x>> \o sorted
  ELSE <<Head(sorted)>> \o InsertNumeric(x, Tail(sorted))

RECURSIVE NumericSort(_)
NumericSort(a) ==
  IF a = <<>> THEN <<>>
  ELSE InsertNumeric(a[Len(a)], NumericSort(SubSeq(a, 1, Len(a) - 1)))

C9_BreakpointsInAnyOrder ==
  (Returned(result) /\ AllRaw(records)) =>
    \A k \in BucketedKeys(given) :
      LET contract(v) == ContractLabel(NumericSort(given.buckets.map[k]), v) IN
      /\ \A v \in TestValues : AssignedLabel(given, k, v) = Str(contract(v))
      /\ GroupsLabelled(result, records, k, contract)

(***************************************************************************)
(* C10.  When sortBy names a bucketed match key, aggregatedRecords come in *)
(* ascending order of the numeric lower bound of each group's bucket       *)
(* interval (the open lower bucket first), also for negative breakpoints   *)
(* and for a match key given as a nested path.                             *)
(***************************************************************************)
RECURSIVE StartLoop(_, _, _, _)
\* the lower bound of the interval BucketLoop labels: -Infinity for the
\* open lower bucket, otherwise the previous endpoint
StartLoop(value, eps, hasPrev, prev) ==
  IF eps = <<>> THEN (IF hasPrev THEN Num(prev) ELSE NInf)
  ELSE IF JsLessEq(value, Num(Head(eps)))
       THEN (IF hasPrev THEN Num(prev) ELSE NInf)
  ELSE StartLoop(value, Tail(eps), TRUE, Head(eps))

\* the lower bound of the bucket of the raw records folded into group g
GroupStart(g, key, recs, req) ==
  LET b == BucketOf(req.buckets, key)
      r == CHOOSE r \in {recs[i] : i \in 1..Len(recs)} :
             getFieldHashKey(r, key, b) = Get(g, key)
  IN StartLoop(Get(r, key), DefaultSort(b.e), FALSE, 0)

SortsOnBucketedMatchKey(req) ==
  /\ req.sortBy.has
  /\ Len(req.sortBy.keys) = 1
  /\ req.sortBy.keys[1] \in BucketedKeys(req)
  /\ \E i \in 1..Len(req.matchKeys) : req.matchKeys[i] = req.sortBy.keys[1]

C10_SortedByBucketLowerBound ==
  (result.status # "none" /\ AllRaw(records) /\ SortsOnBucketedMatchKey(request)) =>
    /\ Returned(result)
    /\ \A i, j \in 1..Len(result.aggregatedRecords) :
         i < j =>
           NumLess(GroupStart(result.aggregatedRecords[i], request.sortBy.keys[1],
                              records, request),
                   GroupStart(result.aggregatedRecords[j], request.sortBy.keys[1],
                              records, request))

(***************************************************************************)
(* C11.  Label round trip: parsing a label the bucket assigner produced    *)
(* returns its defining interval: [-Infinity, b0] for the lowest label,    *)
(* [bi, bi+1] for an inner label, [bn-1, +Infinity] for the highest, both  *)
(* numbers being the breakpoints (no NaN, the sign of a negative           *)
(* breakpoint kept).                                                       *)
(***************************************************************************)
RECURSIVE EndLoop(_, _)
\* the upper bound of the interval BucketLoop labels: the first endpoint
\* the value does not exceed, +Infinity past the last one
EndLoop(value, eps) ==
  IF eps = <<>> THEN PInf
  ELSE IF JsLessEq(value, Num(Head(eps))) THEN Num(Head(eps))
  ELSE EndLoop(value, Tail(eps))

\* the interval of the bucket the assigner puts value in, over the
\* breakpoints in the order the assigner walks them
DefiningInterval(req, key, value) ==
  LET eps == DefaultSort(BucketOf(req.buckets, key).e)
  IN <<StartLoop(value, eps, FALSE, 0), EndLoop(value, eps)>>

ParsesBack(req, key, value) ==
  LET label == getFieldHashKey(ValueRecord(key, value.n), key,
                               BucketOf(req.buckets, key))
  IN parseBucketString(label.s) = DefiningInterval(req, key, value)

C11_LabelRoundTrip ==
  (Returned(result) /\ AllRaw(records)) =>
    \A k \in BucketedKeys(given) :
      /\ \A v \in TestValues : ParsesBack(given, k, Num(v))
      /\ \A i \in 1..Len(records) :
           \E j \in 1..Len(result.aggregatedRecords) :
             LET label == Get(result.aggregatedRecords[j], k) IN
             /\ label = getFieldHashKey(records[i], k, BucketOf(given.buckets, k))
             /\ parseBucketString(label.s)
                  = DefiningInterval(given, k, Get(records[i], k))

(***************************************************************************)
(* Reference values over the records folded into a group.                  *)
(***************************************************************************)
RECURSIVE SumSeq(_)
SumSeq(s) == IF s = <<>> THEN 0 ELSE Head(s) + SumSeq(Tail(s))

RECURSIVE GroupKey(_, _)
\* the key under which the group g was created: its labels joined with ""
GroupKey(g, matchKeys) ==
  IF matchKeys = <<>> THEN <<>>
  ELSE JoinStr(g.f[Head(matchKeys)]) \o GroupKey(g, Tail(matchKeys))

\* the positions of the records the grouped pass folded into group g
FoldedInto(g, recs, req) ==
  {i \in 1..Len(recs) :
     HashKeyOf(recs[i], req.matchKeys, req.buckets) = GroupKey(g, req.matchKeys)}

\* the grouped pass of a call
GroupedPass(recs, req) ==
  aggregateInternal(recs, req.matchKeys, req.buckets, req.fields, req.sortBy)

SameFold(a, b) == a.threw = b.threw /\ a.recs = b.recs

(***************************************************************************)
(* C12.  Degraded input, match keys: an input record whose metadata        *)
(* matchKeys do not contain every requested match key is folded as exactly *)
(* one raw data point: the group count grows by 1, not by the metadata     *)
(* count, and the sum, sumOfSquares, min, max, weightedSum and totalWeight *)
(* contributions come from the record's own field values, never from its   *)
(* metadata.                                                               *)
(***************************************************************************)
MatchKeysDegraded(rec, req) ==
  rec.meta.has /\ ~isSubset(req.matchKeys, rec.meta.matchKeys)

\* the list with the metadata of every match-key-degraded record removed
AsRaw(recs, req) ==
  [i \in 1..Len(recs) |->
     IF MatchKeysDegraded(recs[i], req) THEN StripMeta(recs[i]) ELSE recs[i]]

RawOrDegraded(recs, req) ==
  \A i \in 1..Len(recs) : ~recs[i].meta.has \/ MatchKeysDegraded(recs[i], req)

\* the values at path of the records at the positions in members, 0 elsewhere
ValuesAt(recs, members, path) ==
  [i \in 1..Len(recs) |-> IF i \in members THEN Get(recs[i], path).n ELSE 0]

ProductsAt(recs, members, path1, path2) ==
  [i \in 1..Len(recs) |->
     IF i \in members THEN Get(recs[i], path1).n * Get(recs[i], path2).n ELSE 0]

\* count and standard sums of g are those of its members taken as raw points
FoldedAsRawPoints(g, recs, req) ==
  LET members == FoldedInto(g, recs, req)
      ssf == standardSourceFields(req.fields)
      waf == weightedAvgFields(req.fields)
  IN /\ g.meta.count = Num(Cardinality(members))
     /\ \A k \in 1..Len(ssf) :
          /\ g.meta.sources[ssf[k]].sum
               = Num(SumSeq(ValuesAt(recs, members, ssf[k])))
          /\ g.meta.sources[ssf[k]].sumOfSquares
               = Num(SumSeq(ProductsAt(recs, members, ssf[k], ssf[k])))
     /\ \A k \in 1..Len(waf) :
          LET st == g.meta.sources[getWeightedAverageMetadataKey(
                                     waf[k].sourceField, waf[k].weightField)]
          IN /\ st.totalWeight
                  = Num(SumSeq(ValuesAt(recs, members, waf[k].weightField)))
             /\ st.weightedSum
                  = Num(SumSeq(ProductsAt(recs, members, waf[k].sourceField,
                                          waf[k].weightField)))

DegradedFold(grouped, recs, req) ==
  /\ SameFold(grouped, GroupedPass(AsRaw(recs, req), req))
  /\ (RawOrDegraded(recs, req) /\ ~grouped.threw) =>
       \A j \in 1..Len(grouped.recs) : FoldedAsRawPoints(grouped.recs[j], recs, req)

C12_DegradedMatchKeys ==
  (result.status # "none"
     /\ \E i \in 1..Len(records) : MatchKeysDegraded(records[i], request)) =>
    DegradedFold(GroupedPass(records, request), records, request)

\* a call whose grouped pass folded the stored aggregate (metadata count 2) as
\* a raw point, next to a raw record of the same group
C12_Witness ==
  /\ result.status # "none"
  /\ Len(records) >= 2
  /\ \E i \in 1..Len(records) : MatchKeysDegraded(records[i], request)
  /\ LET grouped == GroupedPass(records, request) IN
     /\ ~grouped.threw
     /\ \E j \in 1..Len(grouped.recs) : grouped.recs[j].meta.count = Num(2)

(***************************************************************************)
(* C13.  Degraded input never fails the run: when the sources of a         *)
(* metadata-bearing record lack a metric key the request needs (the key of *)
(* a standard source field, or the composite key of a requested weighted   *)
(* pair, also when an entry exists under the plain sourceField name),      *)
(* aggregate does not throw and folds the record as one raw record.        *)
(***************************************************************************)
\* every field definition names the fields its method needs
ValidConfig(req) ==
  \A i \in 1..Len(req.fields) :
    /\ req.fields[i].method # "count" => exists(req.fields[i].sourceField)
    /\ req.fields[i].method = "weightedAverage" => exists(req.fields[i].weightField)

\* the metric keys the request needs in sources
NeededMetricKeys(req) ==
  LET ssf == standardSourceFields(req.fields)
      waf == weightedAvgFields(req.fields)
  IN {ssf[i] : i \in 1..Len(ssf)}
       \cup {getWeightedAverageMetadataKey(waf[i].sourceField, waf[i].weightField) :
               i \in 1..Len(waf)}

SourcesDegraded(rec, req) ==
  rec.meta.has /\ \E key \in NeededMetricKeys(req) : ~HasSource(rec.meta, key)

SourcesAsRaw(recs, req) ==
  [i \in 1..Len(recs) |->
     IF SourcesDegraded(recs[i], req) THEN StripMeta(recs[i]) ELSE recs[i]]

C13_DegradedSourcesNeverFail ==
  (result.status # "none" /\ ValidConfig(request)
     /\ \E i \in 1..Len(records) : SourcesDegraded(records[i], request)) =>
    /\ Returned(result)
    /\ SameFold(GroupedPass(records, request),
                GroupedPass(SourcesAsRaw(records, request), request))

(***************************************************************************)
(* C14.  A request with a weightedAverage field that has no weightField    *)
(* fails the whole invocation with a configuration error for every records *)
(* sequence, the empty one included, and the error is raised before the    *)
(* contribution (count or metric) of any record is folded into an          *)
(* accumulator.                                                            *)
(***************************************************************************)
LacksWeightField(req) ==
  \E i \in 1..Len(req.fields) :
    /\ req.fields[i].method = "weightedAverage"
    /\ ~exists(req.fields[i].weightField)

\* the accumulators the loop of the grouped pass leaves behind
Accumulators(recs, req) ==
  FoldAll(EmptyHash, recs, req.matchKeys, req.buckets, req.fields)

NothingFolded(S) ==
  \A i \in 1..Len(S.hash) :
    /\ S.hash[i].rec.meta.count = Num(0)
    /\ DOMAIN S.hash[i].rec.meta.sources = {}

C14_MissingWeightFieldRejected ==
  (result.status # "none" /\ LacksWeightField(request)) =>
    /\ result.status = "threw"
    /\ NothingFolded(Accumulators(records, request))

(***************************************************************************)
(* C15.  A request with a field whose method is min, max, sum, average,    *)
(* standardDeviation or weightedAverage and that has no sourceField is     *)
(* rejected as a configuration error before any record is processed, for   *)
(* every records sequence.                                                 *)
(***************************************************************************)
LacksSourceField(req) ==
  \E i \in 1..Len(req.fields) :
    /\ req.fields[i].method # "count"
    /\ ~exists(req.fields[i].sourceField)

C15_MissingSourceFieldRejected ==
  (result.status # "none" /\ LacksSourceField(request)) =>
    /\ result.status = "threw"
    /\ Accumulators(records, request).hash = <<>>

(***************************************************************************)
(* C16.  Metadata stripping finality: with noAggregateMetadata = true no   *)
(* record of aggregatedRecords and not totals carries                      *)
(* _aggregationMetadata, and re-aggregating that stripped output with the  *)
(* same match keys raises each group's count by exactly 1 per input        *)
(* record, never by a prior count.                                         *)
(***************************************************************************)
\* the positions of the records that carry the labels of g
SameLabels(g, recs, req) ==
  {i \in 1..Len(recs) : Labels(recs[i], req) = Labels(g, req)}

\* every group of res counts the records of recs with its labels, one each,
\* and every record of recs is counted in some group
CountsOnePerRecord(res, recs, req) ==
  /\ Returned(res)
  /\ \A j \in 1..Len(res.aggregatedRecords) :
       res.aggregatedRecords[j].f[P_cnt]
         = Num(Cardinality(SameLabels(res.aggregatedRecords[j], recs, req)))
  /\ \A i \in 1..Len(recs) :
       \E j \in 1..Len(res.aggregatedRecords) :
         i \in SameLabels(res.aggregatedRecords[j], recs, req)
  /\ res.totals.f[P_cnt] = Num(Len(recs))

C16_StrippingFinality ==
  (Returned(result) /\ request.noAggregateMetadata) =>
    /\ AllRaw(result.aggregatedRecords)
    /\ ~result.totals.meta.has
    /\ Len(result.aggregatedRecords) > 0 =>
         CountsOnePerRecord(aggregate(result.aggregatedRecords, request),
                            result.aggregatedRecords, request)

\* the second of two calls with noAggregateMetadata: its input is the
\* stripped output of the first, one record that stood for two, and the
\* group counts 1
C16_Witness ==
  /\ Returned(result)
  /\ request.noAggregateMetadata
  /\ calls = 2
  /\ Len(records) = 1
  /\ records[1].f[P_cnt] = Num(2)
  /\ ~records[1].meta.has
  /\ result.aggregatedRecords[1].f[P_cnt] = Num(1)

(***************************************************************************)
(* C17.  With noAggregateMetadata false, every record of aggregatedRecords *)
(* and totals carries metadata under _aggregationMetadata whose matchKeys  *)
(* equal the request's matchKeys (the empty list for totals) and whose     *)
(* sources hold a state for every standard source field and every weighted *)
(* pair of the request.                                                    *)
(***************************************************************************)
CarriesMetadata(rec, matchKeys, req) ==
  /\ rec.meta.has
  /\ rec.meta.matchKeys = matchKeys
  /\ \A key \in NeededMetricKeys(req) : HasSource(rec.meta, key)

C17_MetadataOnEveryOutput ==
  (Returned(result) /\ ~request.noAggregateMetadata) =>
    /\ \A j \in 1..Len(result.aggregatedRecords) :
         CarriesMetadata(result.aggregatedRecords[j], given.matchKeys, given)
    /\ result.hasTotals
    /\ CarriesMetadata(result.totals, <<>>, given)

(***************************************************************************)
(* C18.  Exact count: a group's metadata count is a non-negative integer   *)
(* equal to the number of raw and degraded records folded into it plus the *)
(* sum of the metadata counts of the re-aggregatable records folded into   *)
(* it, and the count output field returns that number.                     *)
(***************************************************************************)
\* re-aggregatable: metadata present, match keys contained, every needed
\* metric key in sources
Reaggregatable(rec, req) == rec.meta.has /\ NeededKeysPresent(rec, req)

\* what each record at a position in members adds to the count
CountsOf(recs, members, req) ==
  [i \in 1..Len(recs) |->
     IF i \notin members THEN 0
     ELSE IF Reaggregatable(recs[i], req) THEN recs[i].meta.count.n
     ELSE 1]

ExactCount(g, recs, req) ==
  /\ g.meta.count.t = "num"
  /\ g.meta.count.d = 1
  /\ g.meta.count.n >= 0
  /\ g.meta.count.n = SumSeq(CountsOf(recs, FoldedInto(g, recs, req), req))
  /\ g.f[P_cnt] = g.meta.count

C18_ExactCount ==
  (Returned(result) /\ ~request.noAggregateMetadata) =>
    \A j \in 1..Len(result.aggregatedRecords) :
      ExactCount(result.aggregatedRecords[j], records, request)

(***************************************************************************)
(* C19.  For raw integer-valued records and any matchKeys, the outputs of  *)
(* each group equal the reference values over exactly the records of that  *)
(* group: sum = sum of the source values, min/max = least/greatest source  *)
(* value, count = number of records, average = sum / count.                *)
(***************************************************************************)
\* the per-key labels of a record: raw value, or bucket label
RecordLabels(rec, req) ==
  [i \in 1..Len(req.matchKeys) |->
     getFieldHashKey(rec, req.matchKeys[i],
                     BucketOf(req.buckets, req.matchKeys[i]))]

\* the positions of the records that belong to the group g
RecordsOfGroup(g, recs, req) ==
  {i \in 1..Len(recs) : RecordLabels(recs[i], req) = Labels(g, req)}

Least(S) == CHOOSE x \in S : \A y \in S : x <= y

Greatest(S) == CHOOSE x \in S : \A y \in S : x >= y

\* count, sum, min, max, average of v over the records at the positions in
\* members, as exact numbers
Reference(recs, members) ==
  LET vs == {Get(recs[i], P_v).n : i \in members}
      total == SumSeq(ValuesAt(recs, members, P_v))
  IN <<Num(Cardinality(members)), Num(total), Num(Least(vs)), Num(Greatest(vs)),
       BNdiv(Num(total), Num(Cardinality(members)))>>

Outputs(g) == <<g.f[P_cnt], g.f[P_sum], g.f[P_min], g.f[P_max], g.f[P_avg]>>

IntegerValued(recs) == \A i \in 1..Len(recs) : Get(recs[i], P_v).t = "num"

C19_ReferenceValues ==
  (Returned(result) /\ AllRaw(records) /\ IntegerValued(records)
     /\ request.fields = F_std) =>
    /\ \A j \in 1..Len(result.aggregatedRecords) :
         /\ RecordsOfGroup(result.aggregatedRecords[j], records, given) # {}
         /\ Outputs(result.aggregatedRecords[j])
              = Reference(records,
                          RecordsOfGroup(result.aggregatedRecords[j], records, given))
    /\ \A i \in 1..Len(records) :
         \E j \in 1..Len(result.aggregatedRecords) :
           i \in RecordsOfGroup(result.aggregatedRecords[j], records, given)
    /\ result.hasTotals => Outputs(result.totals) = Reference(records, 1..Len(records))

(***************************************************************************)
(* C20.  The standardDeviation output is never NaN for a group with        *)
(* count >= 1 and numeric state: when sumOfSquares/count minus             *)
(* (sum/count) squared is negative, the result is clamped to 0.            *)
(***************************************************************************)
\* the standardDeviation field definitions of the request
DeviationFields(req) ==
  SelectSeq(req.fields, LAMBDA fd : fd.method = "standardDeviation")

NumericState(g, sourceField) ==
  /\ g.meta.count.t = "num"
  /\ g.meta.count.n >= 1
  /\ HasSource(g.meta, sourceField)
  /\ g.meta.sources[sourceField].sum.t = "num"
  /\ g.meta.sources[sourceField].sumOfSquares.t = "num"

NegativeVariance(g, sourceField) ==
  LET st == g.meta.sources[sourceField]
  IN NumLess(Variance(st.sumOfSquares, st.sum, g.meta.count), Num(0))

DeviationClamped(g, req) ==
  LET sdf == DeviationFields(req) IN
  \A k \in 1..Len(sdf) :
    NumericState(g, sdf[k].sourceField) =>
      /\ g.f[sdf[k].out].t # "nan"
      /\ NegativeVariance(g, sdf[k].sourceField) => g.f[sdf[k].out] = Num(0)

PassOwnsItsAccumulators(recs, S, matchKeys, buckets) ==
  \A k \in 1..Len(S.hash) :
    /\ GroupObjectOwner(Creator(S.hash[k], recs, matchKeys, buckets)) = 0
    /\ StateObjectOwner(Creator(S.hash[k], recs, matchKeys, buckets)) = 0

CallOwnsItsAccumulators(recs, req) ==
  /\ PassOwnsItsAccumulators(
       recs, FoldAll(EmptyHash, recs, req.matchKeys, req.buckets, req.fields),
       req.matchKeys, req.buckets)
  /\ PassOwnsItsAccumulators(
       recs, FoldAll(EmptyHash, recs, TotalsMatchKeys(req), NoBuckets, req.fields),
       TotalsMatchKeys(req), NoBuckets)

SameGroup(i, j, grouped, recs, req) ==
  \E k \in 1..Len(grouped.recs) :
    {i, j} \subseteq FoldedInto(grouped.recs[k], recs, req)

GroupsByLabels(grouped, recs, req) ==
  ~grouped.threw =>
    \A i, j \in 1..Len(recs) :
      SameGroup(i, j, grouped, recs, req)
        <=> RecordLabels(recs[i], req) = RecordLabels(recs[j], req)

C22_GroupsAreLabelClasses ==
  result.status # "none" => GroupsByLabels(GroupedPass(records, request), records, request)

(***************************************************************************)
(* C23.  Every output group record holds, at the path of each requested    *)
(* match key (nested paths included), the label common to all records of   *)
(* the group: the raw value for an unbucketed key and the bucket label,    *)
(* not a raw value, for a bucketed key.                                    *)
(***************************************************************************)
\* a label of the form the bucket assigner writes: "<=b", "a-b" or "b+"
IsBucketLabel(v) ==
  /\ v.t = "str"
  /\ Len(v.s) >= 2
  /\ \/ (v.s[1] = "<" /\ v.s[2] = "=")
     \/ v.s[Len(v.s)] = "+"
     \/ \E i \in 2..(Len(v.s) - 1) : v.s[i] = "-"

HoldsCommonLabels(g, recs, req) ==
  /\ FoldedInto(g, recs, req) # {}
  /\ \A i \in FoldedInto(g, recs, req) :
       Labels(g, req) = RecordLabels(recs[i], req)
  /\ \A k \in 1..Len(req.matchKeys) :
       IF BucketOf(req.buckets, req.matchKeys[k]).has
       THEN IsBucketLabel(Get(g, req.matchKeys[k]))
       ELSE \A i \in FoldedInto(g, recs, req) :
              Get(g, req.matchKeys[k]) = Get(recs[i], req.matchKeys[k])

C23_GroupHoldsItsLabels ==
  Returned(result) =>
    \A j \in 1..Len(result.aggregatedRecords) :
      HoldsCommonLabels(result.aggregatedRecords[j], records, request)

(***************************************************************************)
(* C24.  A raw record whose source or weight field is absent or            *)
(* non-numeric never makes aggregate throw: the call returns, the outputs  *)
(* of the affected group for that metric are an invalid-number value, and  *)
(* the groups the record does not belong to are unaffected.                *)
(***************************************************************************)
\* the paths the metrics of the request read on a raw record
MetricPaths(req) ==
  {req.fields[i].sourceField : i \in {k \in 1..Len(req.fields) :
                                        req.fields[k].method # "count"}}
    \cup {req.fields[i].weightField : i \in {k \in 1..Len(req.fields) :
                                               req.fields[k].method = "weightedAverage"}}

\* the raw record lacks a number at a path a metric reads
LacksNumber(rec, req) ==
  ~rec.meta.has /\ \E p \in MetricPaths(req) : Get(rec, p).t # "num"

ReadsPath(fd, p) ==
  /\ fd.method # "count"
  /\ fd.sourceField = p \/ (fd.method = "weightedAverage" /\ fd.weightField = p)

\* the outputs of g for the metrics that read a path some record of g lacks
InvalidOutputs(g, recs, req) ==
  \A i \in RecordsOfGroup(g, recs, req) :
    \A k \in 1..Len(req.fields) :
      (\E p \in MetricPaths(req) :
         ReadsPath(req.fields[k], p) /\ Get(recs[i], p).t # "num") =>
        g.f[req.fields[k].out].t = "nan"

WithNumbers(rec, req) == ~LacksNumber(rec, req)

\* the records of the list that lack no number
Complete(recs, req) == SelectSeq(recs, LAMBDA r : WithNumbers(r, req))

Unaffected(g, recs, req) ==
  (\A i \in RecordsOfGroup(g, recs, req) : ~LacksNumber(recs[i], req)) =>
    \E k \in 1..Len(aggregate(Complete(recs, req), req).aggregatedRecords) :
      aggregate(Complete(recs, req), req).aggregatedRecords[k] = g

\* a group of the records that lack no number, none of whose labels is that
\* of a record that lacks one, is a group of the result
Preserved(h, res, recs, req) ==
  (\A i \in 1..Len(recs) :
     LacksNumber(recs[i], req) =>
       RecordLabels(recs[i], req) # Labels(h, req)) =>
    \E j \in 1..Len(res.aggregatedRecords) : res.aggregatedRecords[j] = h

C24_InvalidNumberNotFault ==
  (result.status # "none" /\ AllRaw(records) /\ ValidConfig(request)
     /\ \E i \in 1..Len(records) : LacksNumber(records[i], request)) =>
    /\ Returned(result)
    /\ \A j \in 1..Len(result.aggregatedRecords) :
         /\ InvalidOutputs(result.aggregatedRecords[j], records, request)
         /\ Unaffected(result.aggregatedRecords[j], records, request)
    /\ \A k \in 1..Len(aggregate(Complete(records, request), request).aggregatedRecords) :
         Preserved(aggregate(Complete(records, request), request).aggregatedRecords[k],
                   result, records, request)

(***************************************************************************)
(* C25.  Without sortBy, aggregatedRecords lists the groups in the order   *)
(* in which each group was first encountered in the input records, for     *)
(* every kind of group key, integers and integer-like strings included.    *)
(***************************************************************************)
\* the position of the first input record that belongs to the group g
FirstSeen(g, recs, req) == Least(RecordsOfGroup(g, recs, req))

InEncounterOrder(g, h, recs, req) ==
  (RecordsOfGroup(g, recs, req) # {} /\ RecordsOfGroup(h, recs, req) # {}) =>
    FirstSeen(g, recs, req) < FirstSeen(h, recs, req)

C25_FirstEncounteredOrder ==
  (Returned(result) /\ ~request.sortBy.has) =>
    \A j \in 1..Len(result.aggregatedRecords) :
      \A k \in (j + 1)..Len(result.aggregatedRecords) :
        InEncounterOrder(result.aggregatedRecords[j],
                         result.aggregatedRecords[k], records, request)

(***************************************************************************)
(* C26.  During one grouping pass a diagnostic is emitted for a record if  *)
(* and only if the record carries metadata and is not re-aggregatable      *)
(* (match keys not contained, or a needed metric key missing); raw records *)
(* and compatible aggregated records emit none, and every record whose     *)
(* metadata is ignored has emitted at least one.                           *)
(***************************************************************************)
\* what the pass wrote to the console while it classified record i
EmittedFor(pass, i) == pass.log[i]

DiagnosedIffDegraded(pass, recs, req) ==
  \A i \in 1..Len(pass.log) :
    /\ (EmittedFor(pass, i) # <<>>) <=>
         (recs[i].meta.has /\ ~NeededKeysPresent(recs[i], req))
    /\ (recs[i].meta.has
          /\ ~isAggregatedRecord(recs[i], req.matchKeys, req.fields)) =>
         EmittedFor(pass, i) # <<>>

C26_DiagnosticIffDegraded ==
  result.status # "none" =>
    DiagnosedIffDegraded(GroupedPass(records, request), records, request)

(***************************************************************************)
(* C27.  Within one request no two distinct metrics share a key in a       *)
(* group's sources: the composite key of a weighted (sourceField,          *)
(* weightField) pair differs from the key of every standard source field   *)
(* and from the composite key of every other pair, for all field path      *)
(* strings, those with a comma or a "weightedAverage," prefix included.    *)
(***************************************************************************)
PairKey(fd) == getWeightedAverageMetadataKey(fd.sourceField, fd.weightField)

SamePair(a, b) ==
  a.sourceField = b.sourceField /\ a.weightField = b.weightField

MetricKeysDistinct(ssf, waf) ==
  \A i \in 1..Len(waf) :
    /\ \A j \in 1..Len(ssf) : PairKey(waf[i]) # ssf[j]
    /\ \A j \in 1..Len(waf) :
         ~SamePair(waf[i], waf[j]) => PairKey(waf[i]) # PairKey(waf[j])

C27_MetricKeysDistinct ==
  result.status # "none" =>
    MetricKeysDistinct(standardSourceFields(request.fields),
                       weightedAvgFields(request.fields))

(***************************************************************************)
(* C28.  For every input list, lists that mix raw records with aggregated  *)
(* records whose metadata is compatible with the totals pass but not with  *)
(* the grouped pass included, the count in totals equals the sum of the    *)
(* counts of all records in aggregatedRecords, and every output group has  *)
(* count >= 1.                                                             *)
(***************************************************************************)
\* the counts the output groups report
GroupCounts(res) ==
  [j \in 1..Len(res.aggregatedRecords) |-> res.aggregatedRecords[j].f[P_cnt].n]

WholeCount(v) == v.t = "num" /\ v.d = 1

CountsAddUp(res) ==
  /\ WholeCount(res.totals.f[P_cnt])
  /\ \A j \in 1..Len(res.aggregatedRecords) :
       /\ WholeCount(res.aggregatedRecords[j].f[P_cnt])
       /\ res.aggregatedRecords[j].f[P_cnt].n >= 1
  /\ res.totals.f[P_cnt].n = SumSeq(GroupCounts(res))

C28_TotalsCountIsSumOfGroups ==
  (Returned(result) /\ result.hasTotals) => CountsAddUp(result)

(***************************************************************************)
(* C29.  Order independence: for every permutation of the input records,   *)
(* aggregate returns the same set of groups with the same identifying      *)
(* labels and the same count, sum, sumOfSquares, min, max, weightedSum and *)
(* totalWeight per group, and the same totals; only the order of           *)
(* aggregatedRecords may differ.                                           *)
(***************************************************************************)
Perms(n) ==
  {p \in [1..n -> 1..n] : \A i \in 1..n : \A j \in 1..n : p[i] = p[j] => i = j}

Permuted(recs, p) == [i \in 1..Len(recs) |-> recs[p[i]]]

\* the labels and the accumulated state of a group
GroupFacts(g, req) == [labels |-> Labels(g, req), meta |-> g.meta]

GroupSet(res, req) ==
  {GroupFacts(res.aggregatedRecords[j], req) : j \in 1..Len(res.aggregatedRecords)}

SameGroupsAndTotals(a, b, req) ==
  /\ a.status = b.status
  /\ GroupSet(a, req) = GroupSet(b, req)
  /\ a.hasTotals = b.hasTotals
  /\ a.totals = b.totals

C29_OrderIndependence ==
  result.status # "none" =>
    \A p \in Perms(Len(records)) :
      SameGroupsAndTotals(aggregate(Permuted(records, p), request), result,
                          request)

(***************************************************************************)
(* C30.  aggregate leaves the request object unchanged: after the call the *)
(* caller's matchKeys, fields, sortBy and every breakpoint array in        *)
(* buckets hold the same elements in the same order as before the call.    *)
(***************************************************************************)
C30_RequestUnchanged == [][Call => request' = request]_vars

====
